---- MODULE Spec2Model ----
(***************************************************************************)
(* Model of the firewall configuration ingestion pipeline:                 *)
(*   PolicyService      (src/app/services/policy_service.py)               *)
(*   ClickHouseHandler  (src/app/database/clickhouse_handler.py)           *)
(*   get_status         (src/app/api/routes.py)                            *)
(* against a ClickHouse server, a sample data directory and a remote       *)
(* firewall API, which are the environment.                                *)
(***************************************************************************)
EXTENDS Integers, Sequences, FiniteSets, TLC

(***************************************************************************)
(* JSON values.  A value is a tagged record; an object keeps its members   *)
(* as a sequence of <<key, value>> pairs in insertion order, as a Python   *)
(* dict does.                                                              *)
(***************************************************************************)
JNull == [t |-> "null"]

JStr(s) == [t |-> "str", s |-> s]

JNum(n) == [t |-> "num", n |-> n]

JArr(items) == [t |-> "arr", items |-> items]

JObj(members) == [t |-> "obj", members |-> members]

IsList(v) == v.t = "arr"

IsDict(v) == v.t = "obj"

\* Python's `key in dict`
HasKey(o, k) == \E i \in 1..Len(o.members) : o.members[i][1] = k

\* Python's dict[key], for a key the dict has
GetKey(o, k) == o.members[CHOOSE i \in 1..Len(o.members) : o.members[i][1] = k][2]

\* Python's truth value of a JSON value: None, [], {}, "" and 0 are false
Truthy(v) ==
    CASE v.t = "null" -> FALSE
      [] v.t = "str"  -> v.s # ""
      [] v.t = "num"  -> v.n # 0
      [] v.t = "arr"  -> Len(v.items) > 0
      [] v.t = "obj"  -> Len(v.members) > 0

(***************************************************************************)
(* json.dumps and json.loads.  The serialized text is a sequence of        *)
(* tokens; loads is a recursive-descent parser over it and fails           *)
(* (JSONDecodeError) on any text that is not one complete JSON value.      *)
(***************************************************************************)
Punct(c) == [k |-> "punct", c |-> c]

StrTok(s) == [k |-> "str", s |-> s]

NumTok(n) == [k |-> "num", n |-> n]

RECURSIVE JoinDumps(_, _)
RECURSIVE JoinMembers(_, _)
RECURSIVE Dumps(_)

Dumps(v) ==
    CASE v.t = "null" -> << Punct("null") >>
      [] v.t = "str"  -> << StrTok(v.s) >>
      [] v.t = "num"  -> << NumTok(v.n) >>
      [] v.t = "arr"  -> << Punct("[") >> \o JoinDumps(v.items, 1) \o << Punct("]") >>
      [] v.t = "obj"  -> << Punct("{") >> \o JoinMembers(v.members, 1) \o << Punct("}") >>

JoinDumps(items, i) ==
    IF i > Len(items) THEN << >>
    ELSE (IF i > 1 THEN << Punct(",") >> ELSE << >>)
         \o Dumps(items[i]) \o JoinDumps(items, i + 1)

JoinMembers(members, i) ==
    IF i > Len(members) THEN << >>
    ELSE (IF i > 1 THEN << Punct(",") >> ELSE << >>)
         \o << StrTok(members[i][1]), Punct(":") >> \o Dumps(members[i][2])
         \o JoinMembers(members, i + 1)

ParseFail == [ok |-> FALSE]

ParseOk(v, rest) == [ok |-> TRUE, val |-> v, rest |-> rest]

IsPunct(toks, c) == Len(toks) > 0 /\ Head(toks) = Punct(c)

RECURSIVE ParseValue(_)
RECURSIVE ParseItems(_, _)
RECURSIVE ParseMembers(_, _)

ParseValue(toks) ==
    IF Len(toks) = 0 THEN ParseFail
    ELSE LET h == Head(toks) IN
         CASE h.k = "str" -> ParseOk(JStr(h.s), Tail(toks))
           [] h.k = "num" -> ParseOk(JNum(h.n), Tail(toks))
           [] h.k = "punct" ->
                CASE h.c = "null" -> ParseOk(JNull, Tail(toks))
                  [] h.c = "[" ->
                        IF IsPunct(Tail(toks), "]")
                        THEN ParseOk(JArr(<< >>), Tail(Tail(toks)))
                        ELSE ParseItems(Tail(toks), << >>)
                  [] h.c = "{" ->
                        IF IsPunct(Tail(toks), "}")
                        THEN ParseOk(JObj(<< >>), Tail(Tail(toks)))
                        ELSE ParseMembers(Tail(toks), << >>)
                  [] OTHER -> ParseFail

\* after "[" or ",": one value, then "," or "]"
ParseItems(toks, acc) ==
    LET r == ParseValue(toks) IN
    IF ~r.ok THEN ParseFail
    ELSE IF IsPunct(r.rest, ",") THEN ParseItems(Tail(r.rest), Append(acc, r.val))
    ELSE IF IsPunct(r.rest, "]") THEN ParseOk(JArr(Append(acc, r.val)), Tail(r.rest))
    ELSE ParseFail

\* after "{" or ",": a string key, ":", one value, then "," or "}"
ParseMembers(toks, acc) ==
    IF Len(toks) < 2 \/ Head(toks).k # "str" \/ ~IsPunct(Tail(toks), ":") THEN ParseFail
    ELSE LET r == ParseValue(Tail(Tail(toks))) IN
         IF ~r.ok THEN ParseFail
         ELSE LET m == Append(acc, << Head(toks).s, r.val >>) IN
              IF IsPunct(r.rest, ",") THEN ParseMembers(Tail(r.rest), m)
              ELSE IF IsPunct(r.rest, "}") THEN ParseOk(JObj(m), Tail(r.rest))
              ELSE ParseFail

\* json.loads: the whole text must be one value
Loads(text) ==
    LET r == ParseValue(text) IN
    IF r.ok /\ Len(r.rest) = 0 THEN [ok |-> TRUE, val |-> r.val] ELSE ParseFail

\* the count without the test that `policies` is a list: any `policies` key
\* decides, and one that is no list counts 1
CountPolicies_KeyOnly(raw) ==
    IF IsList(raw) THEN Len(raw.items)
    ELSE IF IsDict(raw) THEN
        IF HasKey(raw, "policies")
        THEN (IF IsList(GetKey(raw, "policies")) THEN Len(GetKey(raw, "policies").items) ELSE 1)
        ELSE IF HasKey(raw, "policy")
        THEN (IF IsList(GetKey(raw, "policy")) THEN Len(GetKey(raw, "policy").items) ELSE 1)
        ELSE 1
    ELSE 0

(***************************************************************************)
(* PolicyService.fetch_and_store_policies, lines 166-177: the shallow      *)
(* policy count of the raw payload.                                        *)
(***************************************************************************)
CountPolicies(raw) ==
    IF IsList(raw) THEN Len(raw.items)
    ELSE IF IsDict(raw) THEN
        IF HasKey(raw, "policies") /\ IsList(GetKey(raw, "policies"))
        THEN Len(GetKey(raw, "policies").items)
        ELSE IF HasKey(raw, "policy")
        THEN (IF IsList(GetKey(raw, "policy")) THEN Len(GetKey(raw, "policy").items) ELSE 1)
        ELSE 1
    ELSE 0

(***************************************************************************)
(* DataProcessor.format_summary and _format_interfaces.  A display string  *)
(* is a sequence of pieces (TLC has no string concatenation): a JSON       *)
(* string is itself, str() of any other value is PyStr(value).             *)
(***************************************************************************)
PyStr(v) == IF v.t = "str" THEN v ELSE [t |-> "pystr", of |-> v]

RECURSIVE JoinNames(_, _)
\* ", ".join(names)
JoinNames(names, i) ==
    IF i > Len(names) THEN << >>
    ELSE (IF i > 1 THEN << JStr(", ") >> ELSE << >>) \o << names[i] >> \o JoinNames(names, i + 1)

\* dict.get(key, default)
DictGet(o, k, default) == IF HasKey(o, k) THEN GetKey(o, k) ELSE default

_format_interfaces(interfaces) ==
    IF IsList(interfaces) THEN
        LET names == [i \in 1..Len(interfaces.items) |->
                        IF IsDict(interfaces.items[i])
                        THEN DictGet(interfaces.items[i], "name", PyStr(interfaces.items[i]))
                        ELSE PyStr(interfaces.items[i])]
        IN IF Len(names) > 0 THEN JoinNames(names, 1) ELSE << JStr("N/A") >>
    ELSE IF IsDict(interfaces) THEN << DictGet(interfaces, "name", JStr("N/A")) >>
    ELSE IF Truthy(interfaces) THEN << PyStr(interfaces) >>
    ELSE << JStr("N/A") >>

\* the summary entry of one policy dict, lines 108-123
SamplePolicy(policy) ==
    [name |-> DictGet(policy, "name", JStr("Unnamed")),
     policy_id |-> DictGet(policy, "policyid", JStr("N/A")),
     source_interface |-> _format_interfaces(DictGet(policy, "srcintf", JArr(<< >>))),
     destination_interface |-> _format_interfaces(DictGet(policy, "dstintf", JArr(<< >>))),
     action |-> DictGet(policy, "action", JStr("N/A"))]

\* policies[:5]
SummaryLimit == 5

\* the whole list taken for the sample
FirstN_All(seq, n) == seq

FirstN(seq, n) == SubSeq(seq, 1, IF Len(seq) < n THEN Len(seq) ELSE n)

\* format_summary(policies) for any JSON value: the summary, or the exception
\* Python raises (len() of None or a number; .get on a non-dict element; slicing
\* a dict)
format_summary(policies) ==
    CASE policies.t \in {"null", "num"} -> [ok |-> FALSE, exc |-> "TypeError"]
      [] policies.t = "str" ->
            IF policies.s = ""
            THEN [ok |-> TRUE, val |-> [total_policies |-> 0, sample_policies |-> << >>]]
            ELSE [ok |-> FALSE, exc |-> "AttributeError"]
      [] policies.t = "obj" ->
            IF Len(policies.members) = 0
            THEN [ok |-> TRUE, val |-> [total_policies |-> 0, sample_policies |-> << >>]]
            ELSE [ok |-> FALSE, exc |-> "TypeError"]
      [] policies.t = "arr" ->
            LET first == FirstN(policies.items, SummaryLimit) IN
            IF \E i \in 1..Len(first) : ~IsDict(first[i])
            THEN [ok |-> FALSE, exc |-> "AttributeError"]
            ELSE [ok |-> TRUE,
                  val |-> [total_policies |-> Len(policies.items),
                           sample_policies |-> [i \in 1..Len(first) |-> SamplePolicy(first[i])]]]

(***************************************************************************)
(* The environment's documents: what the remote API can answer and what a  *)
(* sample file can contain.                                                *)
(***************************************************************************)
MaxLen == 2

PolicyA ==
    JObj(<< << "policyid", JNum(1) >>, << "name", JStr("allow-web") >>,
            << "srcintf", JArr(<< JObj(<< << "name", JStr("lan") >> >>) >>) >>,
            << "dstintf", JArr(<< JObj(<< << "name", JStr("wan") >> >>) >>) >>,
            << "action", JStr("accept") >> >>)

PolicyB == JObj(<< << "policyid", JNum(2) >>, << "srcintf", JStr("dmz") >> >>)

\* arrays of policy objects, and arrays holding an element that is no object
PolicyArrays == UNION { [1..n -> {PolicyA, PolicyB}] : n \in 0..MaxLen }

MixedArrays == { Append(a, JStr("x")) : a \in { b \in PolicyArrays : Len(b) < MaxLen } }

ObjectShapes ==
    { JObj(<< >>),
      JObj(<< << "hostname", JStr("fw") >> >>),
      JObj(<< << "policies", JArr(<< PolicyA >>) >> >>),
      JObj(<< << "policies", JArr(<< >>) >>, << "policy", JArr(<< PolicyA, PolicyB >>) >> >>),
      JObj(<< << "policies", JStr("x") >> >>),
      JObj(<< << "policies", JStr("x") >>, << "policy", JArr(<< PolicyA, PolicyB >>) >> >>),
      JObj(<< << "policies", JStr("") >>, << "policy", JArr(<< PolicyA, PolicyB >>) >> >>),
      JObj(<< << "policy", PolicyA >> >>),
      JObj(<< << "policy", JArr(<< PolicyA, PolicyB >>) >> >>),
      JObj(<< << "policy", JArr(<< >>) >> >>) }

Payloads ==
    { JNull, JStr("x") } \cup { JArr(a) : a \in PolicyArrays \cup MixedArrays } \cup ObjectShapes

(***************************************************************************)
(* State.                                                                  *)
(***************************************************************************)
VARIABLES
    rows,        \* the firewall_configs table: the rows in insertion order
    dbExists,    \* the target database exists on the server
    tableExists, \* firewall_configs exists
    clock,       \* the server's now(), in whole seconds (DateTime columns)
    ambient,     \* PolicyService.fortigate_client is set (configured from .env)
    hasHandler,  \* PolicyService.clickhouse_handler is set
    hclient,     \* ClickHouseHandler.client: "none" (None) or "set"
    pc,          \* where the current call stands
    op,          \* the operation the caller invoked
    req,         \* its arguments
    loc,         \* its local variables
    result,      \* its result dict
    outcome,     \* how it ended: returned or raised
    trace        \* the calls it made to its collaborators, in order

vars == << rows, dbExists, tableExists, clock, ambient, hasHandler, hclient,
           pc, op, req, loc, result, outcome, trace >>

storeVars == << rows, dbExists, tableExists, clock >>

svcVars == << ambient, hasHandler >>

MaxRows == 2

MaxStored == 1

\* Python None for an optional string and for an optional id
NoneStr == ""

NoId == 0

Running == [kind |-> "running", exc |-> "none"]

Returned == [kind |-> "returned", exc |-> "none"]

Raised(e) == [kind |-> "raised", exc |-> e]

Event(o, a, r) == [op |-> o, arg |-> a, res |-> r]

StoreEvents == { e \in 1..Len(trace) : trace[e].op = "store" }

(***************************************************************************)
(* PolicyService.fetch_and_store_policies                                  *)
(***************************************************************************)
\* the result starting with a stored count of 1
InitialResult_CountSet ==
    [success |-> FALSE, policies_count |-> 0, db_stored |-> FALSE, db_count |-> 1,
     config_id |-> 0, summary |-> [kind |-> "none"], error |-> "none",
     data_source |-> "api"]

\* lines 68-77
InitialResult ==
    [success |-> FALSE, policies_count |-> 0, db_stored |-> FALSE, db_count |-> 0,
     config_id |-> NoId, summary |-> [kind |-> "none"], error |-> "none",
     data_source |-> "api"]

\* the address of the client built from .env (FORTIGATE_IP default)
AmbientAddress == "192.168.1.99"

\* a or b, for optional strings
OrStr(a, b) == IF a # NoneStr THEN a ELSE b

\* the ambient client preferred to the one built from the request's override
ResolveClient_AmbientFirst(fwcfg, amb) ==
    IF amb THEN "ambient" ELSE IF fwcfg.given THEN "temp" ELSE "none"

\* lines 83-110: the client to use and the device identity
ResolveClient(fwcfg, amb) ==
    IF fwcfg.given THEN "temp" ELSE IF amb THEN "ambient" ELSE "none"

\* the values derived from the source preferred to the explicit arguments
ResolveIdentity_SourceFirst(fwcfg, amb, vendor_type, device_id, device_name) ==
    LET vendor == OrStr(vendor_type, "fortigate")
        dev == IF fwcfg.given THEN OrStr(OrStr(fwcfg.device_id, fwcfg.ip_address), device_id)
               ELSE IF amb THEN AmbientAddress
               ELSE "unknown"
        derived == << vendor, "-", dev >>
        name == IF fwcfg.given /\ fwcfg.device_name # << >> THEN fwcfg.device_name
                ELSE IF device_name # << >> THEN device_name
                ELSE derived
    IN [vendor_type |-> vendor, device_id |-> dev, device_name |-> name]

ResolveIdentity(fwcfg, amb, vendor_type, device_id, device_name) ==
    LET vendor == OrStr(vendor_type, "fortigate")
        dev == IF fwcfg.given THEN OrStr(device_id, OrStr(fwcfg.device_id, fwcfg.ip_address))
               ELSE IF amb THEN OrStr(device_id, AmbientAddress)
               ELSE OrStr(device_id, "unknown")
        derived == << vendor, "-", dev >>
        name == IF device_name # << >> THEN device_name
                ELSE IF fwcfg.given /\ fwcfg.device_name # << >> THEN fwcfg.device_name
                ELSE derived
    IN [vendor_type |-> vendor, device_id |-> dev, device_name |-> name]

NoConfig == [given |-> FALSE, ip_address |-> NoneStr, device_id |-> NoneStr, device_name |-> << >>]

FirewallConfigs ==
    { NoConfig,
      [given |-> TRUE, ip_address |-> "10.0.0.1", device_id |-> NoneStr, device_name |-> << >>] }

IngestRequests ==
    [store_in_db : BOOLEAN, use_sample_data : BOOLEAN, firewall_config : FirewallConfigs,
     vendor_type : {NoneStr}, device_id : {NoneStr},
     device_name : {<< >>}]

\* the candidates tried in the other order
sample_files_Swapped == << "sample_policies.json", "fortinet-config.json" >>

\* The sample data directory: each candidate file is absent, unreadable as
\* JSON, or holds a document.
sample_files == << "fortinet-config.json", "sample_policies.json" >>

SampleDocs ==
    { JNull, JArr(<< >>), JArr(<< PolicyA >>), JArr(<< JStr("x") >>),
      JObj(<< << "policies", JArr(<< PolicyA >>) >> >>) }

FileStates ==
    { [st |-> "absent", doc |-> JNull], [st |-> "bad", doc |-> JNull] }
    \cup { [st |-> "file", doc |-> p] : p \in SampleDocs }

Directories == [ { sample_files[i] : i \in 1..Len(sample_files) } -> FileStates ]

\* no directory read (outside the fallback phase)
NoDir == [ f \in { sample_files[i] : i \in 1..Len(sample_files) } |-> [st |-> "unread", doc |-> JNull] ]

Idle == pc = "done"

\* the fetch made whenever a client is resolved, use_sample_data ignored
ShouldFetch_ForceIgnored(use_sample_data, client) == client # "none"

\* line 115: not use_sample_data and client_to_use
ShouldFetch(use_sample_data, client) == ~use_sample_data /\ client # "none"

\* lines 80-90: temp_client = FortiGateClient(fgt_config) opens a
\* requests.Session (fortigate_client.py, line 36); FortiGateClient.close()
\* would close it
TempClientSession(fwcfg) == IF fwcfg.given THEN "open" ELSE "none"

IngestStart(r) ==
    /\ Idle
    /\ Len(rows) < MaxStored
    /\ op' = "ingest"
    /\ req' = r
    /\ result' = InitialResult
    /\ outcome' = Running
    /\ trace' = << >>
    /\ LET client == ResolveClient(r.firewall_config, ambient) IN
       /\ loc' = [raw |-> JNull, use_fallback |-> FALSE, client_to_use |-> client,
                  identity |-> ResolveIdentity(r.firewall_config, ambient, r.vendor_type,
                                               r.device_id, r.device_name),
                  dir |-> NoDir,
                  temp_session |-> TempClientSession(r.firewall_config)]
       /\ pc' = IF ShouldFetch(r.use_sample_data, client) THEN "fetch" ELSE "fallback"
    /\ UNCHANGED << storeVars, svcVars, hclient >>

\* The remote client's fetch_raw_config(): the raw parsed payload, or one of the
\* classified failures.
FetchErrors == { "401", "403", "404", "non2xx", "malformed", "connection", "timeout" }

fetch_raw_config ==
    { [ok |-> FALSE, err |-> e, payload |-> JNull] : e \in FetchErrors }
    \cup { [ok |-> TRUE, err |-> "none", payload |-> p] : p \in Payloads }

\* lines 115-125
IngestFetch ==
    /\ op = "ingest" /\ pc = "fetch"
    /\ \E out \in fetch_raw_config :
        /\ trace' = Append(trace, Event("fetch", loc.client_to_use,
                                        IF out.ok THEN "ok" ELSE "failed"))
        /\ IF out.ok
           THEN /\ loc' = [loc EXCEPT !.raw = out.payload]
                /\ result' = [result EXCEPT !.data_source = "api"]
                /\ pc' = "count"
           ELSE /\ loc' = [loc EXCEPT !.use_fallback = TRUE]
                /\ result' = result
                /\ pc' = "fallback"
    /\ UNCHANGED << storeVars, svcVars, hclient, op, req, outcome >>

\* SampleDataLoader.is_sample_data_available
is_sample_data_available(dir, filename) == dir[filename].st # "absent"

\* SampleDataLoader.load_full_json: the document, unmodified, or a failure
load_full_json(dir, filename) ==
    IF dir[filename].st = "file"
    THEN [ok |-> TRUE, val |-> dir[filename].doc]
    ELSE [ok |-> FALSE, val |-> JNull]

\* lines 131-144: the loop over sample_files from candidate i on; the payload
\* it ends with and the calls it makes
RECURSIVE ScanSamples(_, _)
ScanSamples(dir, i) ==
    IF i > Len(sample_files) THEN [raw |-> JNull, events |-> << >>]
    ELSE LET filename == sample_files[i] IN
         IF is_sample_data_available(dir, filename)
         THEN LET ld == load_full_json(dir, filename) IN
              IF ld.ok
              THEN [raw |-> ld.val,
                    events |-> << Event("is_available", filename, "yes"),
                                  Event("load", filename, "ok") >>]
              ELSE LET rest == ScanSamples(dir, i + 1) IN
                   [raw |-> rest.raw,
                    events |-> << Event("is_available", filename, "yes"),
                                  Event("load", filename, "failed") >> \o rest.events]
         ELSE LET rest == ScanSamples(dir, i + 1) IN
              [raw |-> rest.raw,
               events |-> << Event("is_available", filename, "no") >> \o rest.events]

\* the loop's result is used without the None check
NoSampleFound_Unchecked(raw) == FALSE

\* line 146: raw_json_data is None
NoSampleFound(raw) == raw = JNull

\* lines 128-164; dir is the directory as the loop read it
IngestFallback ==
    /\ op = "ingest" /\ pc = "fallback"
    /\ \E dir \in Directories :
        LET scan == ScanSamples(dir, 1) IN
        /\ trace' = trace \o scan.events
        /\ loc' = [loc EXCEPT !.raw = scan.raw, !.dir = dir]
        /\ IF NoSampleFound(scan.raw)
           THEN /\ result' = [result EXCEPT !.error = "no_sample", !.success = FALSE]
                /\ outcome' = Returned
                /\ pc' = "done"
           ELSE /\ result' = [result EXCEPT !.data_source = "sample"]
                /\ outcome' = outcome
                /\ pc' = "count"
    /\ UNCHANGED << storeVars, svcVars, hclient, op, req >>

\* the store written to whenever the service has one, store_in_db ignored
ShouldPersist_StoreIgnored(store_in_db, handler) == handler

\* line 196: store_in_db and self.clickhouse_handler
ShouldPersist(store_in_db, handler) == store_in_db /\ handler

\* lines 166-193
IngestCount ==
    /\ op = "ingest" /\ pc = "count"
    /\ IF ~Truthy(loc.raw)
       THEN /\ result' = [result EXCEPT !.policies_count = CountPolicies(loc.raw),
                                        !.success = TRUE]
            /\ outcome' = Returned
            /\ pc' = "done"
       ELSE /\ result' = [result EXCEPT !.policies_count = CountPolicies(loc.raw)]
            /\ outcome' = outcome
            /\ pc' = IF ShouldPersist(req.store_in_db, hasHandler) THEN "ensure" ELSE "summary"
    /\ loc' = [loc EXCEPT !.dir = NoDir]
    /\ UNCHANGED << storeVars, svcVars, hclient, op, req, trace >>

\* lines 225-231: the summary of a payload, or the exception format_summary
\* raises
SummaryOf(raw) ==
    IF IsList(raw) THEN format_summary(raw)
    ELSE IF IsDict(raw) /\ HasKey(raw, "policies")
    THEN format_summary(GetKey(raw, "policies"))
    ELSE [ok |-> TRUE, val |-> [message |-> "Full configuration stored", type |-> raw.t]]

\* lines 225-245
IngestSummary ==
    /\ op = "ingest" /\ pc = "summary"
    /\ LET fs == SummaryOf(loc.raw)
       IN IF fs.ok
          THEN /\ result' = [result EXCEPT !.summary = [kind |-> "summary", val |-> fs.val],
                                           !.success = TRUE]
               /\ outcome' = Returned
          ELSE /\ result' = [result EXCEPT !.error = fs.exc]
               /\ outcome' = Raised(fs.exc)
    /\ pc' = "done"
    /\ UNCHANGED << storeVars, svcVars, hclient, op, req, loc, trace >>

(***************************************************************************)
(* routes.fetch_policies (POST /policies/fetch): the HTTP status the caller *)
(* gets for the way fetch_and_store_policies ended.  The route calls it     *)
(* without use_sample_data, which is then False.                            *)
(***************************************************************************)
\* the HTTPException raised for success=false passed on as a 404
fetch_policies_status_NotFound(out, res) ==
    IF out = Returned THEN (IF res.success THEN 200 ELSE 404)
    ELSE IF out.exc \in { "FortiGateAPIError", "DatabaseError" } THEN 503
    ELSE 500

\* lines 84-115: the HTTPException(500) raised for success=false is caught by
\* `except Exception` and raised again as a 500
fetch_policies_status(out, res) ==
    IF out = Returned THEN (IF res.success THEN 200 ELSE 500)
    ELSE IF out.exc \in { "FortiGateAPIError", "DatabaseError" } THEN 503
    ELSE 500

(***************************************************************************)
(* ClickHouseHandler.  Every command sent to the server either succeeds or *)
(* fails with a ClickHouseError; which one is the environment's choice,    *)
(* within what the server's state allows.                                  *)
(***************************************************************************)
\* the trace keeps whether a command succeeded, not why it failed
StoreEvent(cmd, res) == Event("store", cmd, IF res = "ok" THEN "ok" ELSE "failed")

\* opening a client on the target database and SELECT 1: error 81 when the
\* database does not exist, a connection failure, or another error
ConnectResults(exists) ==
    IF exists THEN { "ok", "conn", "other" } ELSE { "nodb", "conn", "other" }

\* a statement on firewall_configs fails when the table is missing
TableResults == IF dbExists /\ tableExists THEN { "ok", "failed" } ELSE { "failed" }

\* what becomes of a client object that holds a connection and that the
\* handler lets go of: closed by close(), or dropped, the only reference to it
\* overwritten or lost, with its connection open.  "self" is the handler's
\* self.client, "temp" the temp_client of ensure_database_exists on the
\* default database.  A client whose connect failed is not counted: the server
\* did not answer on it.  The trace keeps these events for EnsureReady called
\* on its own; inside the other operations the handler does the same and the
\* trace keeps the commands only.
ClientEvent(what, which) == Event("client", what, which)

ClientEvents(events) == IF op = "ensure" THEN events ELSE << >>

\* connect(), line 141: self.client is assigned over the client the handler
\* holds
ReplaceDropping(client) ==
    IF hclient = "set" /\ client = "set"
    THEN ClientEvents(<< ClientEvent("drop", "self") >>) ELSE << >>

Path(events, ok, created, client) ==
    [events |-> events, ok |-> ok, created |-> created, client |-> client]

\* ensure_database_exists, lines 208-233: connect to "default", create the
\* database, reconnect through connect()
PathsFromDefault(prefix) ==
    { Path(prefix \o << StoreEvent("connect_default", r) >>, FALSE, FALSE, "same")
        : r \in { "conn", "other" } }
    \cup { Path(prefix \o << StoreEvent("connect_default", "ok"),
                             StoreEvent("create_database", "failed") >>
                        \o ClientEvents(<< ClientEvent("drop", "temp") >>),
                 FALSE, FALSE, "same") }
    \cup { Path(prefix \o << StoreEvent("connect_default", "ok"),
                             StoreEvent("create_database", "ok") >>
                        \o ClientEvents(<< ClientEvent("close", "temp") >>)
                        \o ReplaceDropping(x[2])
                        \o << StoreEvent("connect_db", x[1]) >>, x[1] = "ok", TRUE, x[2])
        : x \in { y \in ConnectResults(TRUE) \X { "same", "set" } :
                    y[1] = "ok" => y[2] = "set" } }

\* ensure_database_exists, lines 167-245: the ways it can run.  When the target
\* database answers at once, the client the handler holds is closed and the
\* new one takes its place (lines 181-183): nothing is dropped.  A connection
\* error whose text holds "81" (a port such as 8123) is taken for "database
\* does not exist" and falls through to the default database.
EnsurePaths(exists) ==
    (IF exists THEN { Path(<< StoreEvent("connect_db", "ok") >>, TRUE, FALSE, "set") } ELSE { })
    \cup { Path(<< StoreEvent("connect_db", "conn") >>, FALSE, FALSE, "same") }
    \cup UNION { PathsFromDefault(<< StoreEvent("connect_db", f) >>)
                    : f \in ConnectResults(exists) \ { "ok" } }

\* get_status without its inner try: the DatabaseError leaves the route
HandleDatabaseError_StatusRaises ==
    /\ pc' = IF op = "ingest" THEN "summary" ELSE "done"
    /\ result' = IF op \in { "ingest", "lookup" }
                 THEN [result EXCEPT !.error = "db_failed"] ELSE result
    /\ outcome' = CASE op = "ingest" -> outcome
                    [] OTHER -> Raised("DatabaseError")

\* a DatabaseError leaving a handler method: fetch_and_store_policies records
\* it (lines 220-223), get_status swallows it (routes.py 135-136), every
\* other caller sees it raised
HandleDatabaseError ==
    /\ pc' = IF op = "ingest" THEN "summary" ELSE "done"
    /\ result' = IF op \in { "ingest", "lookup" }
                 THEN [result EXCEPT !.error = "db_failed"] ELSE result
    /\ outcome' = CASE op = "ingest" -> outcome
                    [] op = "status" -> Returned
                    [] OTHER -> Raised("DatabaseError")

EnsureDatabaseExists ==
    /\ pc = "ensure"
    /\ \E path \in EnsurePaths(dbExists) :
        /\ trace' = trace \o path.events
        /\ dbExists' = (dbExists \/ path.created)
        /\ hclient' = IF path.client = "set" THEN "set" ELSE hclient
        /\ IF path.ok
           THEN /\ pc' = IF op = "lookup" THEN "get" ELSE "create_table"
                /\ UNCHANGED << result, outcome >>
           ELSE HandleDatabaseError
    /\ UNCHANGED << rows, tableExists, clock, svcVars, op, req, loc >>

\* create_table, lines 254-261
CreateTable ==
    /\ pc = "create_table"
    /\ \E r \in { "ok", "failed" } :
        /\ trace' = Append(trace, StoreEvent("create_table", r))
        /\ tableExists' = (tableExists \/ r = "ok")
        /\ IF r = "ok"
           THEN /\ pc' = IF op = "ingest" THEN "insert" ELSE "done"
                /\ result' = result
                /\ outcome' = IF op = "ingest" THEN outcome ELSE Returned
           ELSE HandleDatabaseError
    /\ UNCHANGED << rows, dbExists, clock, svcVars, hclient, op, req, loc >>

\* connect(), lines 136-155, as get_status calls it
Connect ==
    /\ pc = "connect"
    /\ \E x \in { y \in ConnectResults(dbExists) \X { "same", "set" } :
                    y[1] = "ok" => y[2] = "set" } :
        /\ trace' = trace \o ReplaceDropping(x[2]) \o << StoreEvent("connect_db", x[1]) >>
        /\ hclient' = IF x[2] = "set" THEN "set" ELSE hclient
        /\ IF x[1] = "ok"
           THEN /\ pc' = "pcount"
                /\ UNCHANGED << result, outcome >>
           ELSE HandleDatabaseError
    /\ UNCHANGED << storeVars, svcVars, op, req, loc >>

\* the metadata with the number of entries inserted for total_policies
PersistArgs_EntryCount ==
    IF op = "ingest"
    THEN [configs |-> << loc.raw >>,
          vendor_type |-> loc.identity.vendor_type,
          device_id |-> loc.identity.device_id,
          device_name |-> loc.identity.device_name,
          config_type |-> "policy",
          metadata |-> JObj(<< << "data_source", JStr(result.data_source) >>,
                               << "total_policies", JNum(1) >> >>)]
    ELSE req

\* the arguments of the insert_configs call under way: those of
\* fetch_and_store_policies (lines 200-207), or the caller's own
PersistArgs ==
    IF op = "ingest"
    THEN [configs |-> << loc.raw >>,
          vendor_type |-> loc.identity.vendor_type,
          device_id |-> loc.identity.device_id,
          device_name |-> loc.identity.device_name,
          config_type |-> "policy",
          metadata |-> JObj(<< << "data_source", JStr(result.data_source) >>,
                               << "total_policies", JNum(result.policies_count) >> >>)]
    ELSE req

\* insert_configs, lines 311-316: one payload is stored unwrapped, several as
\* an array
ConfigsJson(configs) ==
    IF Len(configs) = 1 THEN Dumps(configs[1]) ELSE Dumps(JArr(configs))

\* insert_configs, lines 305-328: the row to insert; id and created_at are the
\* server's defaults (generateUUIDv4(), now())
NewRow(a) ==
    [id |-> Len(rows) + 1,
     vendor_type |-> a.vendor_type,
     device_id |-> a.device_id,
     device_name |-> IF a.device_name # << >> THEN a.device_name ELSE << a.device_id >>,
     config_type |-> a.config_type,
     config_json |-> ConfigsJson(a.configs),
     metadata |-> Dumps(a.metadata),
     version |-> "",
     created_at |-> clock,
     retrieved_at |-> clock]

\* the insert as an upsert: the new row takes the place of the device's rows
InsertRow_Upsert(a) ==
    LET others == SelectSeq(rows, LAMBDA r : ~(/\ r.vendor_type = a.vendor_type
                                               /\ r.device_id = a.device_id
                                               /\ r.config_type = a.config_type))
    IN Append(others, NewRow(a))

\* insert_configs, lines 338-344: client.insert of the one row
InsertRow(a) == Append(rows, NewRow(a))

\* insert_configs, lines 294-345 and 387-396: up to the insert
InsertConfigs ==
    /\ pc = "insert"
    /\ LET a == PersistArgs IN
       IF Len(a.configs) = 0
       THEN /\ pc' = "done"
            /\ result' = [inserted |-> 0, config_id |-> NoId]
            /\ outcome' = Returned
            /\ UNCHANGED << rows, trace >>
       ELSE IF hclient = "none"
       THEN \* None.insert: AttributeError, wrapped by except Exception
            /\ HandleDatabaseError
            /\ UNCHANGED << rows, trace >>
       ELSE \E r \in TableResults :
            /\ trace' = Append(trace, StoreEvent("insert", r))
            /\ IF r = "ok"
               THEN /\ rows' = InsertRow(a)
                    /\ pc' = "idquery"
                    /\ UNCHANGED << result, outcome >>
               ELSE /\ HandleDatabaseError
                    /\ rows' = rows
    /\ UNCHANGED << dbExists, tableExists, clock, svcVars, hclient, op, req, loc >>

\* ORDER BY created_at DESC, retrieved_at DESC
Later(r1, r2) ==
    \/ r1.created_at > r2.created_at
    \/ r1.created_at = r2.created_at /\ r1.retrieved_at > r2.retrieved_at

\* the rows the id query of lines 363-371 can return with LIMIT 1: the
\* matching rows that no matching row precedes in the ordering
MostRecent(a) ==
    LET matching == { i \in 1..Len(rows) :
                        /\ rows[i].vendor_type = a.vendor_type
                        /\ rows[i].device_id = a.device_id
                        /\ rows[i].config_type = a.config_type }
    IN { i \in matching : \A j \in matching : ~Later(rows[j], rows[i]) }

\* insert_configs, lines 347-385: the id of the inserted row
InsertConfigsId ==
    /\ pc = "idquery"
    /\ \E r \in TableResults :
        /\ trace' = Append(trace, StoreEvent("id_query", r))
        /\ \E cid \in IF r = "ok" /\ MostRecent(PersistArgs) # { }
                      THEN { rows[i].id : i \in MostRecent(PersistArgs) } ELSE { NoId } :
            IF op = "ingest"
            THEN \* policy_service.py lines 208-210
                 /\ result' = [result EXCEPT !.db_stored = TRUE, !.db_count = 1,
                                             !.config_id = cid]
                 /\ pc' = "pcount"
                 /\ outcome' = outcome
            ELSE /\ result' = [inserted |-> 1, config_id |-> cid]
                 /\ pc' = "done"
                 /\ outcome' = Returned
    /\ UNCHANGED << storeVars, svcVars, hclient, op, req, loc >>

\* the filters of the get_config_count call under way: get_policy_count
\* (line 526) passes config_type="policy" only
CountArgs ==
    IF op = "count" THEN req
    ELSE [vendor_type |-> NoneStr, device_id |-> NoneStr, config_type |-> "policy"]

\* SELECT COUNT(*) ... WHERE, lines 488-507: an absent or empty filter adds no
\* condition
CountMatching(a) ==
    Cardinality({ i \in 1..Len(rows) :
                    /\ a.vendor_type # NoneStr => rows[i].vendor_type = a.vendor_type
                    /\ a.device_id # NoneStr => rows[i].device_id = a.device_id
                    /\ a.config_type # NoneStr => rows[i].config_type = a.config_type })

\* what the caller of get_config_count does with the count
CountReturns(n) ==
    /\ pc' = IF op = "ingest" THEN "summary" ELSE "done"
    /\ result' = CASE op = "ingest" -> result
                   [] op = "status" -> [result EXCEPT !.total_policies_in_db = n]
                   [] OTHER -> [count |-> n]
    /\ outcome' = IF op = "ingest" THEN outcome ELSE Returned

\* get_config_count, lines 487-517
GetConfigCount ==
    /\ pc = "pcount"
    /\ IF hclient = "none"
       THEN \* None.query: AttributeError, which except ClickHouseError lets through
            \* (get_status alone catches it, routes.py lines 135-136)
            /\ pc' = "done"
            /\ result' = result
            /\ outcome' = IF op = "status" THEN Returned ELSE Raised("AttributeError")
            /\ trace' = trace
       ELSE \E r \in TableResults :
            /\ trace' = Append(trace, StoreEvent("count_query", r))
            /\ CountReturns(IF r = "ok" THEN CountMatching(CountArgs) ELSE 0)
    /\ UNCHANGED << storeVars, svcVars, hclient, op, req, loc >>

\* an id as a caller writes it: well-formed (uuid.UUID accepts it) or not, and
\* the row number it names; str(uuid) of a stored id is well-formed
UuidText(n) == [wf |-> TRUE, n |-> n]

MalformedId == [wf |-> FALSE, n |-> 0]

LookupIds == { MalformedId } \cup { UuidText(n) : n \in 1..(MaxRows + 1) }

\* get_config_by_id, lines 590-629: a JSON column is returned parsed, or as
\* the stored string when it is empty or does not parse
ParsedColumn(text) ==
    LET l == Loads(text) IN
    IF Len(text) > 0 /\ l.ok THEN [kind |-> "value", val |-> l.val]
    ELSE [kind |-> "text", text |-> text]

\* one try block around both columns: when config_json does not parse,
\* metadata is left as stored
ConfigDict_OneTry(row) ==
    [row EXCEPT !.config_json = ParsedColumn(row.config_json),
                !.metadata = IF ParsedColumn(row.config_json).kind = "text"
                                /\ Len(row.config_json) > 0
                             THEN [kind |-> "text", text |-> row.metadata]
                             ELSE ParsedColumn(row.metadata)]

\* lines 588-629: the row as a dict, each JSON column under its own try
ConfigDict(row) ==
    [row EXCEPT !.config_json = ParsedColumn(row.config_json),
                !.metadata = ParsedColumn(row.metadata)]

NoConfigDict == [kind |-> "none"]

\* the service forgets that the handler answers None for an id no row has
GetReturns_NoneAsFound(found, config) ==
    /\ pc' = "done"
    /\ outcome' = Returned
    /\ result' = IF op = "lookup"
                 THEN [success |-> TRUE, config |-> config, error |-> "none"]
                 ELSE [config |-> config]

\* what the caller of the handler's get_config_by_id does with its result:
\* PolicyService.get_config_by_id, lines 280-288
GetReturns(found, config) ==
    /\ pc' = "done"
    /\ outcome' = Returned
    /\ result' = IF op = "lookup"
                 THEN IF found
                      THEN [success |-> TRUE, config |-> config, error |-> "none"]
                      ELSE [success |-> FALSE, config |-> NoConfigDict, error |-> "not_found"]
                 ELSE [config |-> config]

\* ClickHouseHandler.get_config_by_id, lines 542-641
GetConfigById ==
    /\ pc = "get"
    /\ IF ~req.config_id.wf
       THEN \* lines 545-550; PolicyService lines 290-293 re-raise it
            /\ pc' = "done"
            /\ outcome' = Raised("ValueError")
            /\ result' = IF op = "lookup" THEN [result EXCEPT !.error = "invalid_id"] ELSE result
            /\ trace' = trace
       ELSE IF hclient = "none"
       THEN \* None.query: AttributeError, wrapped by except Exception
            /\ HandleDatabaseError
            /\ trace' = trace
       ELSE \E r \in TableResults :
            /\ trace' = Append(trace, StoreEvent("get_query", r))
            /\ IF r = "failed"
               THEN HandleDatabaseError
               ELSE LET hits == { i \in 1..Len(rows) : rows[i].id = req.config_id.n } IN
                    IF hits = { }
                    THEN GetReturns(FALSE, NoConfigDict)
                    ELSE \E i \in hits :
                            GetReturns(TRUE, [kind |-> "record", row |-> ConfigDict(rows[i])])
    /\ UNCHANGED << storeVars, svcVars, hclient, op, req, loc >>

(***************************************************************************)
(* The operations a caller can start.                                      *)
(***************************************************************************)
NoLocals == [none |-> TRUE]

StartCall(o, r, res, at) ==
    /\ Idle
    /\ op' = o
    /\ req' = r
    /\ loc' = NoLocals
    /\ result' = res
    /\ trace' = << >>
    /\ pc' = at
    /\ outcome' = IF at = "done" THEN Returned ELSE Running
    /\ UNCHANGED << storeVars, svcVars, hclient >>

\* PolicyService.get_config_by_id, lines 261-275
LookupStart(id) ==
    IF ~hasHandler
    THEN StartCall("lookup", [config_id |-> id],
                   [success |-> FALSE, config |-> NoConfigDict, error |-> "not_configured"],
                   "done")
    ELSE StartCall("lookup", [config_id |-> id],
                   [success |-> FALSE, config |-> NoConfigDict, error |-> "none"], "ensure")

\* routes.get_status, lines 129-143
StatusReport(n) ==
    [status |-> "operational", fortigate_configured |-> ambient,
     database_configured |-> hasHandler, total_policies_in_db |-> n]

StatusStart ==
    StartCall("status", [none |-> TRUE], StatusReport(0),
              IF hasHandler THEN "connect" ELSE "done")

\* the handler's own entry points, called on a handler in any state
MaxConfigs == 2

ConfigLists == UNION { [1..n -> { PolicyA }] : n \in 0..MaxConfigs }

\* any list of payloads for one device, and one payload for another
PersistRequests ==
    { r \in [configs : ConfigLists, vendor_type : { "fortigate" },
             device_id : { "fw1", "10.0.0.1" }, device_name : { << >> },
             config_type : { "policy" }, metadata : { JObj(<< >>) }] :
        r.device_id = "10.0.0.1" => Len(r.configs) = 1 }

PersistStart(r) ==
    /\ hasHandler
    /\ Len(rows) < MaxRows
    /\ StartCall("persist", r, [none |-> TRUE], "insert")

CountRequests ==
    [vendor_type : { NoneStr, "fortigate" }, device_id : { NoneStr, "fw1" },
     config_type : { NoneStr, "policy" }]

CountStart(r) ==
    /\ hasHandler
    /\ StartCall("count", r, [none |-> TRUE], "pcount")

GetStart(id) ==
    /\ hasHandler
    /\ StartCall("get", [config_id |-> id], [none |-> TRUE], "get")

\* ensure_database_exists() then create_table()
EnsureStart ==
    /\ hasHandler
    /\ StartCall("ensure", [none |-> TRUE], [none |-> TRUE], "ensure")

\* dependencies.get_policy_service, lines 78-94: a new service with a new
\* handler, from the same cached configuration
NewService ==
    /\ Idle
    /\ hclient = "set"
    /\ hclient' = "none"
    /\ UNCHANGED << storeVars, svcVars, pc, op, req, loc, result, outcome, trace >>

\* a second passes on the server.  Only the passing of a second in which a row
\* was written can be observed.
Tick ==
    /\ \E i \in 1..Len(rows) : rows[i].created_at = clock
    /\ clock' = clock + 1
    /\ UNCHANGED << rows, dbExists, tableExists, svcVars, hclient,
                    pc, op, req, loc, result, outcome, trace >>

Init ==
    /\ rows = << >>
    /\ dbExists = FALSE
    /\ tableExists = FALSE
    /\ clock = 0
    /\ ambient \in BOOLEAN
    /\ hasHandler \in BOOLEAN
    /\ hclient = "none"
    /\ pc = "done"
    /\ op = "none"
    /\ req = [none |-> TRUE]
    /\ loc = NoLocals
    /\ result = [none |-> TRUE]
    /\ outcome = [kind |-> "none", exc |-> "none"]
    /\ trace = << >>

\* the ingestion service: callers of fetch_and_store_policies
Next ==
    \/ \E r \in IngestRequests : IngestStart(r)
    \/ IngestFetch
    \/ IngestFallback
    \/ IngestCount
    \/ IngestSummary
    \/ EnsureDatabaseExists
    \/ CreateTable
    \/ InsertConfigs
    \/ InsertConfigsId
    \/ GetConfigCount
    \/ NewService
    \/ Tick

Spec == Init /\ [][Next]_vars

\* the store: callers of get_config_by_id, of get_status and of the handler
NextStore ==
    \/ \E id \in LookupIds : LookupStart(id)
    \/ StatusStart
    \/ \E r \in PersistRequests : PersistStart(r)
    \/ \E r \in CountRequests : CountStart(r)
    \/ \E id \in LookupIds : GetStart(id)
    \/ EnsureStart
    \/ EnsureDatabaseExists
    \/ CreateTable
    \/ Connect
    \/ InsertConfigs
    \/ InsertConfigsId
    \/ GetConfigCount
    \/ GetConfigById
    \/ NewService
    \/ Tick

SpecStore == Init /\ [][NextStore]_vars

\* the service, ingesting sample data, and the store's other callers on one
\* table
SampleRequests ==
    { r \in IngestRequests : r.store_in_db /\ r.use_sample_data /\ ~r.firewall_config.given }

NextAll ==
    \/ \E r \in SampleRequests : IngestStart(r)
    \/ IngestFallback
    \/ IngestCount
    \/ IngestSummary
    \/ \E id \in LookupIds : LookupStart(id)
    \/ StatusStart
    \/ \E r \in PersistRequests : PersistStart(r)
    \/ CountStart([vendor_type |-> NoneStr, device_id |-> NoneStr, config_type |-> "policy"])
    \/ EnsureStart
    \/ EnsureDatabaseExists
    \/ CreateTable
    \/ Connect
    \/ InsertConfigs
    \/ InsertConfigsId
    \/ GetConfigCount
    \/ GetConfigById
    \/ NewService
    \/ Tick

SpecAll == Init /\ [][NextAll]_vars

(***************************************************************************)
(* Ingests that differ in the identity they are given: each starts on an   *)
(* empty table that is there already.                                      *)
(***************************************************************************)
IdentityConfigs ==
    FirewallConfigs \cup
    { [given |-> TRUE, ip_address |-> "10.0.0.1", device_id |-> "fwX", device_name |-> << >>],
      [given |-> TRUE, ip_address |-> "10.0.0.1", device_id |-> NoneStr,
       device_name |-> << "core" >>] }

IdentityRequests ==
    [store_in_db : { TRUE }, use_sample_data : BOOLEAN, firewall_config : IdentityConfigs,
     vendor_type : { NoneStr, "paloalto" }, device_id : { NoneStr, "fw9" },
     device_name : { << >>, << "edge" >> }]

IdentityStart(r) ==
    /\ rows = << >>
    /\ IngestStart(r)

InitIdentity ==
    /\ rows = << >>
    /\ dbExists = TRUE
    /\ tableExists = TRUE
    /\ clock = 0
    /\ ambient \in BOOLEAN
    /\ hasHandler = TRUE
    /\ hclient = "none"
    /\ pc = "done"
    /\ op = "none"
    /\ req = [none |-> TRUE]
    /\ loc = NoLocals
    /\ result = [none |-> TRUE]
    /\ outcome = [kind |-> "none", exc |-> "none"]
    /\ trace = << >>

NextIdentity ==
    \/ \E r \in IdentityRequests : IdentityStart(r)
    \/ IngestFetch
    \/ IngestFallback
    \/ IngestCount
    \/ IngestSummary
    \/ EnsureDatabaseExists
    \/ CreateTable
    \/ InsertConfigs
    \/ InsertConfigsId
    \/ GetConfigCount
    \/ NewService
    \/ Tick

SpecIdentity == InitIdentity /\ [][NextIdentity]_vars

(***************************************************************************)
(* Two HTTP calls at once: each has its own service, handler and client    *)
(* (dependencies.get_policy_service), and its own insert_configs call      *)
(* under way on the one table.  req and loc hold the arguments and the     *)
(* locals of each call.                                                    *)
(***************************************************************************)
NumCalls == 2

Calls == 1..NumCalls

\* insert_configs, lines 294-345 and 387-396, of call c
ConcurrentInsert(c) ==
    /\ op = "concurrent" /\ loc[c].pc = "insert"
    /\ IF Len(req[c].configs) = 0
       THEN /\ loc' = [loc EXCEPT ![c] = [@ EXCEPT !.pc = "done", !.outcome = Returned]]
            /\ rows' = rows
       ELSE \E r \in TableResults :
            IF r = "ok"
            THEN /\ rows' = InsertRow(req[c])
                 /\ loc' = [loc EXCEPT ![c] = [@ EXCEPT !.pc = "idquery",
                                                        !.wrote = Len(rows) + 1]]
            ELSE /\ rows' = rows
                 /\ loc' = [loc EXCEPT ![c] = [@ EXCEPT !.pc = "done",
                                                        !.outcome = Raised("DatabaseError")]]
    /\ UNCHANGED << dbExists, tableExists, clock, svcVars, hclient, pc, op, req,
                    result, outcome, trace >>

\* insert_configs, lines 347-385, of call c
ConcurrentIdQuery(c) ==
    /\ op = "concurrent" /\ loc[c].pc = "idquery"
    /\ \E r \in TableResults :
        \E cid \in IF r = "ok" /\ MostRecent(req[c]) # { }
                   THEN { rows[i].id : i \in MostRecent(req[c]) } ELSE { NoId } :
            loc' = [loc EXCEPT ![c] = [@ EXCEPT !.pc = "done", !.outcome = Returned,
                                               !.inserted = 1, !.config_id = cid]]
    /\ UNCHANGED << storeVars, svcVars, hclient, pc, op, req, result, outcome, trace >>

\* the table is there; every call is about to insert
InitConcurrent ==
    /\ rows = << >>
    /\ dbExists = TRUE
    /\ tableExists = TRUE
    /\ clock = 0
    /\ ambient \in BOOLEAN
    /\ hasHandler = TRUE
    /\ hclient = "set"
    /\ pc = "calls"
    /\ op = "concurrent"
    /\ req \in [Calls -> PersistRequests]
    /\ loc = [c \in Calls |-> [pc |-> "insert", outcome |-> Running, wrote |-> 0,
                                inserted |-> 0, config_id |-> NoId]]
    /\ result = [none |-> TRUE]
    /\ outcome = Running
    /\ trace = << >>

NextConcurrent ==
    \/ \E c \in Calls : ConcurrentInsert(c)
    \/ \E c \in Calls : ConcurrentIdQuery(c)
    \/ Tick

SpecConcurrent == InitConcurrent /\ [][NextConcurrent]_vars

(***************************************************************************)
(* FortiGateClient.fetch_policies: one GET on the session, then            *)
(* _validate_response, _parse_response and _extract_policies.  The         *)
(* environment chooses how the GET ends: a final response with a status    *)
(* and a body, or an exception of the requests library.                    *)
(***************************************************************************)
Transports == { "response", "ConnectionError", "Timeout", "RequestException" }

Statuses == { 200, 201, 300, 401, 403, 404, 500 }

\* bodies that are JSON documents, an empty body and an HTML page
Bodies ==
    { Dumps(v) : v \in { JArr(<< PolicyA, PolicyB >>), PolicyA, JStr("x"), JNull,
                         JObj(<< << "results", JArr(<< PolicyA >>) >> >>),
                         JObj(<< << "results", JNull >> >>),
                         JObj(<< << "results", JNum(0) >> >>),
                         JObj(<< << "data", PolicyA >> >>),
                         JObj(<< << "data", JArr(<< PolicyA >>) >> >>) } }
    \cup { << >>, << Punct("<html>") >> }

FetchInputs == [transport : Transports, status : Statuses, body : Bodies]

\* Response.ok: raise_for_status() raises for 400 to 599 only
ResponseOk(status) == ~(status >= 400 /\ status < 600)

\* lines 117-152: the classified error, or none
_validate_response(status) ==
    CASE status = 401 -> "AuthenticationFailed"
      [] status = 403 -> "Forbidden"
      [] status = 404 -> "EndpointNotFound"
      [] ~ResponseOk(status) -> "RemoteError"
      [] OTHER -> "none"

\* lines 186-198: the policies of a parsed response
_extract_policies(data) ==
    IF IsList(data) THEN data
    ELSE IF IsDict(data) THEN
        IF HasKey(data, "results") THEN GetKey(data, "results")
        ELSE IF HasKey(data, "data")
        THEN (IF IsList(GetKey(data, "data")) THEN GetKey(data, "data")
              ELSE JArr(<< GetKey(data, "data") >>))
        ELSE JArr(<< data >>)
    ELSE JArr(<< >>)

\* Python's len() is defined for lists, dicts and strings
HasLen(v) == v.t \in { "arr", "obj", "str" }

FetchFails(class) == [ok |-> FALSE, exc |-> "FortiGateAPIError", class |-> class]

\* lines 77-115
fetch_policies(in) ==
    IF in.transport = "ConnectionError" THEN FetchFails("ConnectionFailed")
    ELSE IF in.transport = "Timeout" THEN FetchFails("Timeout")
    ELSE IF in.transport = "RequestException" THEN FetchFails("RequestError")
    ELSE IF _validate_response(in.status) # "none"
    THEN FetchFails(_validate_response(in.status))
    ELSE IF ~Loads(in.body).ok THEN FetchFails("MalformedResponse")
    ELSE LET policies == _extract_policies(Loads(in.body).val) IN
         \* len(policies) at lines 200 and 96
         IF HasLen(policies) THEN [ok |-> TRUE, payload |-> policies]
         ELSE [ok |-> FALSE, exc |-> "TypeError", class |-> "none"]

FetchStart(in) ==
    /\ Idle
    /\ ambient
    /\ StartCall("fetch", in, [none |-> TRUE], "get")

FetchPolicies ==
    /\ op = "fetch" /\ pc = "get"
    /\ LET out == fetch_policies(req) IN
       /\ result' = IF out.ok THEN [payload |-> out.payload] ELSE [class |-> out.class]
       /\ outcome' = IF out.ok THEN Returned ELSE Raised(out.exc)
       /\ trace' = Append(trace, Event("fetch", "ambient", IF out.ok THEN "ok" ELSE "failed"))
    /\ pc' = "done"
    /\ UNCHANGED << storeVars, svcVars, hclient, op, req, loc >>

NextFetch ==
    \/ \E in \in FetchInputs : FetchStart(in)
    \/ FetchPolicies

SpecFetch == Init /\ [][NextFetch]_vars

(***************************************************************************)
(* The string literals of the generated queries.  A text is a sequence of  *)
(* characters; the handler writes a value between single quotes into the   *)
(* query, and the server reads the literal back: a backslash takes the     *)
(* next character with it, two single quotes are one, a single quote alone *)
(* ends the literal.                                                       *)
(***************************************************************************)
MaxChars == 3

Quote == "'"

Backslash == "\\"

Chars == { "a", "-", Quote, Backslash }

Texts == UNION { [1..n -> Chars] : n \in 0..MaxChars }

RECURSIVE escape_string(_)
\* value.replace("'", "''")
escape_string(value) ==
    IF Len(value) = 0 THEN << >>
    ELSE (IF Head(value) = Quote THEN << Quote, Quote >> ELSE << Head(value) >>)
         \o escape_string(Tail(value))

\* f"... = '{escaped}'"
Literal(escaped) == << Quote >> \o escaped \o << Quote >>

RECURSIVE LexLiteral(_, _)
\* the server reading a literal from character i on, after its opening quote:
\* the position of the quote that ends it, or 0 when the text ends first
LexLiteral(text, i) ==
    IF i > Len(text) THEN 0
    ELSE IF text[i] = Backslash THEN LexLiteral(text, i + 2)
    ELSE IF text[i] = Quote
    THEN (IF i < Len(text) /\ text[i + 1] = Quote THEN LexLiteral(text, i + 2) ELSE i)
    ELSE LexLiteral(text, i + 1)

\* uuid.UUID(text), lines 545-550: hyphens removed, the text must be
\* hexadecimal digits of the length of a UUID (32; UuidDigits here)
UuidDigits == 2

HexDigits(text) == SelectSeq(text, LAMBDA c : c # "-")

UuidAccepts(text) ==
    /\ Len(HexDigits(text)) = UuidDigits
    /\ \A i \in 1..Len(text) : text[i] \in { "a", "-" }

\* the filters of insert_configs' id query (lines 357-369) and of
\* get_config_count (lines 495-503), and the id of get_config_by_id (line 573)
QueryRequests ==
    [query : { "id_query", "count" }, field : { "vendor_type", "device_id", "config_type" },
     value : Texts]
    \cup [query : { "get" }, field : { "id" }, value : Texts]

QueryStart(r) ==
    /\ Idle
    /\ hasHandler
    /\ StartCall("query", r, [none |-> TRUE], "build")

\* the literal written into the query for the value, if one is written
BuildQuery ==
    /\ op = "query" /\ pc = "build"
    /\ IF req.query = "get" /\ ~UuidAccepts(req.value)
       THEN /\ outcome' = Raised("ValueError")
            /\ result' = [written |-> FALSE, literal |-> << >>]
       ELSE IF req.query = "count" /\ Len(req.value) = 0
       THEN /\ outcome' = Returned
            /\ result' = [written |-> FALSE, literal |-> << >>]
       ELSE /\ outcome' = Returned
            /\ result' = [written |-> TRUE,
                          literal |-> IF req.query = "get" THEN Literal(req.value)
                                      ELSE Literal(escape_string(req.value))]
    /\ pc' = "done"
    /\ UNCHANGED << storeVars, svcVars, hclient, op, req, loc, trace >>

NextQuery ==
    \/ \E r \in QueryRequests : QueryStart(r)
    \/ BuildQuery

SpecQuery == Init /\ [][NextQuery]_vars

(***************************************************************************)
(* Summaries of lists of policy objects, longer than the sample the        *)
(* summary keeps: the payload is the list, or an object holding it under   *)
(* `policies`.                                                             *)
(***************************************************************************)
MaxPolicies == 6

\* srcintf a single object, dstintf an empty list
PolicyC ==
    JObj(<< << "policyid", JNum(3) >>, << "name", JStr("single") >>,
            << "srcintf", JObj(<< << "name", JStr("port1") >> >>) >>,
            << "dstintf", JArr(<< >>) >>, << "action", JStr("deny") >> >>)

\* srcintf a list of two objects, dstintf an empty string
PolicyD ==
    JObj(<< << "name", JStr("two") >>,
            << "srcintf", JArr(<< JObj(<< << "name", JStr("lan") >> >>),
                                  JObj(<< << "name", JStr("dmz") >> >>) >>) >>,
            << "dstintf", JStr("") >> >>)

PolicyLists == UNION { [1..n -> { PolicyA, PolicyB, PolicyC, PolicyD }] : n \in 0..MaxPolicies }

SummaryPayloads ==
    { JArr(l) : l \in PolicyLists } \cup { JObj(<< << "policies", JArr(l) >> >>) : l \in PolicyLists }

\* a summary about to be made of any of the payloads
InitSummary ==
    /\ rows = << >>
    /\ dbExists = FALSE
    /\ tableExists = FALSE
    /\ clock = 0
    /\ ambient = FALSE
    /\ hasHandler = FALSE
    /\ hclient = "none"
    /\ pc = "format"
    /\ op = "summary"
    /\ req \in [raw : SummaryPayloads]
    /\ loc = NoLocals
    /\ result = [none |-> TRUE]
    /\ outcome = Running
    /\ trace = << >>

\* policy_service.py lines 225-231 on the payload
FormatSummary ==
    /\ op = "summary" /\ pc = "format"
    /\ LET fs == SummaryOf(req.raw) IN
       IF fs.ok
       THEN /\ result' = [summary |-> fs.val]
            /\ outcome' = Returned
       ELSE /\ result' = result
            /\ outcome' = Raised(fs.exc)
    /\ pc' = "done"
    /\ UNCHANGED << storeVars, svcVars, hclient, op, req, loc, trace >>

NextSummary == FormatSummary

SpecSummary == InitSummary /\ [][NextSummary]_vars

(***************************************************************************)
(* Lookups on a table whose row was not written by insert_configs: the     *)
(* columns are Strings (TABLE_SCHEMA) and can hold any text, a partial     *)
(* write included.                                                         *)
(***************************************************************************)
\* valid JSON texts, the empty string, a document cut short, a bare word
StoredTexts ==
    { Dumps(JArr(<< PolicyA >>)), Dumps(JObj(<< << "data_source", JStr("api") >> >>)),
      Dumps(JNull), Dumps(JNum(0)),
      << >>,
      SubSeq(Dumps(JArr(<< PolicyA >>)), 1, 5),
      << Punct("{"), StrTok("data_source") >>,
      << Punct("oops") >> }

StoredRows ==
    [id : { 1 }, vendor_type : { "fortigate" }, device_id : { "fw1" },
     device_name : { << "fw1" >> }, config_type : { "policy" },
     config_json : StoredTexts, metadata : StoredTexts, version : { "" },
     created_at : { 0 }, retrieved_at : { 0 }]

InitStored ==
    /\ rows \in { << r >> : r \in StoredRows }
    /\ dbExists = TRUE
    /\ tableExists = TRUE
    /\ clock = 0
    /\ ambient \in BOOLEAN
    /\ hasHandler = TRUE
    /\ hclient \in { "none", "set" }
    /\ pc = "done"
    /\ op = "none"
    /\ req = [none |-> TRUE]
    /\ loc = NoLocals
    /\ result = [none |-> TRUE]
    /\ outcome = [kind |-> "none", exc |-> "none"]
    /\ trace = << >>

NextStored ==
    \/ \E id \in LookupIds : LookupStart(id)
    \/ \E id \in LookupIds : GetStart(id)
    \/ EnsureDatabaseExists
    \/ GetConfigById

SpecStored == InitStored /\ [][NextStored]_vars

(***************************************************************************)
(* The claims.                                                             *)
(***************************************************************************)
IngestDone == op = "ingest" /\ pc = "done"

TraceHas(o, a, r) == \E e \in 1..Len(trace) : trace[e] = Event(o, a, r)

\* the live fetch was made and failed
FetchFailed == \E e \in 1..Len(trace) : trace[e].op = "fetch" /\ trace[e].res = "failed"

\* the fallback phase was entered: its loop always asks for the first candidate
FallbackEntered == \E e \in 1..Len(trace) : trace[e].op = "is_available"

\* a candidate sample file was available and loaded
SampleLoaded == \E e \in 1..Len(trace) : trace[e].op = "load" /\ trace[e].res = "ok"

\* the persist phase raised: its last command to the store failed, and that
\* command is one whose failure insert_configs and get_config_count do not absorb
PersistRaised ==
    /\ StoreEvents # { }
    /\ LET last == CHOOSE e \in StoreEvents : \A f \in StoreEvents : f <= e IN
       /\ trace[last].res = "failed"
       /\ trace[last].arg \notin { "id_query", "count_query" }

\* C1: an Ingest with forceSample=false and a live source whose Fetch fails,
\* and for which a candidate sample file is available and loads a document,
\* returns without raising, with success=true and dataSource="sample".
C1_FallbackSucceeds ==
    (IngestDone /\ ~req.use_sample_data /\ loc.client_to_use # "none"
        /\ FetchFailed /\ SampleLoaded /\ loc.raw # JNull)
    => (outcome = Returned /\ result.success /\ result.data_source = "sample")

C3_InvalidIdBeforeStore ==
    (op = "lookup" /\ pc = "done" /\ hasHandler /\ ~req.config_id.wf)
    => (outcome = Raised("ValueError") /\ StoreEvents = { })

\* C4: Lookup with a well-formed id that the store's query finds no row for
\* returns, without raising, success=false, config=None and the not-found
\* error; and no step of a Lookup changes the stored rows.
C4_LookupNotFound ==
    /\ []((op = "lookup" /\ pc = "done" /\ req.config_id.wf
            /\ TraceHas("store", "get_query", "ok")
            /\ ~\E i \in 1..Len(rows) : rows[i].id = req.config_id.n)
          => (/\ outcome = Returned
              /\ result = [success |-> FALSE, config |-> NoConfigDict, error |-> "not_found"]))
    /\ [][op' = "lookup" => rows' = rows]_vars

\* a Lookup of an id no row has, on a table that holds a row
C4_Witness ==
    /\ op = "lookup" /\ pc = "done" /\ req.config_id.wf
    /\ Len(rows) > 0
    /\ TraceHas("store", "get_query", "ok")
    /\ ~\E i \in 1..Len(rows) : rows[i].id = req.config_id.n
    /\ outcome = Returned /\ result.error = "not_found"

\* C5: after Persist of a non-empty list of N payloads has returned an id, Get
\* of that id yields a record whose config_json is the payload itself when
\* N=1 and the array of the payloads when N>1.
C5_RoundTrip ==
    (op = "persist" /\ pc = "done" /\ outcome = Returned /\ result.config_id # NoId)
    => \A i \in 1..Len(rows) :
          rows[i].id = result.config_id
          => ConfigDict(rows[i]).config_json
               = [kind |-> "value",
                  val |-> IF Len(req.configs) = 1 THEN req.configs[1] ELSE JArr(req.configs)]

\* C6: when the persist phase of an Ingest raises a store error, the Ingest
\* still returns success=true with a non-empty error, stored=false,
\* configId=None, and policiesCount and dataSource as computed before.
C6_PersistFailureRecorded ==
    (IngestDone /\ PersistRaised)
    => (/\ outcome = Returned
        /\ result.success
        /\ result.error # "none"
        /\ ~result.db_stored
        /\ result.config_id = NoId
        /\ result.policies_count = CountPolicies(loc.raw)
        /\ result.data_source = (IF SampleLoaded THEN "sample" ELSE "api"))

\* C7: get_config_count returns an integer to its caller whatever the filters
\* and the handler's state, and returns 0 when its query fails.
C7_CountNeverRaises ==
    (op = "count" /\ pc = "done")
    => (/\ outcome = Returned
        /\ result.count \in Nat
        /\ (TraceHas("store", "count_query", "failed") => result.count = 0))

\* C8: an Ingest with storeResult=false that obtains a payload sends nothing
\* to the store and returns stored=false, storedCount=0, configId=None,
\* success=true, with policiesCount computed from the payload.
C8_NoStoreWhenNotAsked ==
    (IngestDone /\ ~req.store_in_db /\ loc.raw # JNull)
    => (/\ outcome = Returned
        /\ StoreEvents = { }
        /\ ~result.db_stored
        /\ result.db_count = 0
        /\ result.config_id = NoId
        /\ result.success
        /\ result.policies_count = CountPolicies(loc.raw))

\* the extraction rule as the specification words it
HasPoliciesArray(v) == HasKey(v, "policies") /\ GetKey(v, "policies").t = "arr"

RuleCount(v) ==
    CASE v.t = "arr" -> Len(v.items)
      [] v.t = "obj" /\ HasPoliciesArray(v) -> Len(GetKey(v, "policies").items)
      [] v.t = "obj" /\ ~HasPoliciesArray(v) /\ HasKey(v, "policy") ->
            IF GetKey(v, "policy").t = "arr" THEN Len(GetKey(v, "policy").items) ELSE 1
      [] OTHER -> 1

\* C9: the policiesCount of the result an Ingest returns for an array or
\* object payload is the array's length; else the length of `policies` when
\* that is an array; else, with a `policy` key, its length when an array and 1
\* when not; else 1.
C9_PoliciesCount ==
    (IngestDone /\ outcome = Returned /\ loc.raw.t \in { "arr", "obj" })
    => result.policies_count = RuleCount(loc.raw)

\* an object whose `policies` is no array and whose `policy` is: counted by `policy`
C9_Witness ==
    /\ IngestDone /\ outcome = Returned
    /\ loc.raw = JObj(<< << "policies", JStr("") >>,
                         << "policy", JArr(<< PolicyA, PolicyB >>) >> >>)
    /\ result.policies_count = 2

\* the first candidate, in the documented order, that is available and loads
FirstUsableDoc(dir) ==
    IF dir["fortinet-config.json"].st = "file" THEN dir["fortinet-config.json"].doc
    ELSE IF dir["sample_policies.json"].st = "file" THEN dir["sample_policies.json"].doc
    ELSE JNull

\* C10: right after the fallback loop, the payload is the document of the
\* first of fortinet-config.json, sample_policies.json that is available and
\* loads; fortinet-config.json is asked for first; a candidate whose load fails
\* is followed by the next; and sample_policies.json is neither asked for nor
\* loaded when fortinet-config.json is available and loads.
C10_CandidateOrder ==
    (op = "ingest" /\ loc.dir # NoDir)
    => (/\ loc.raw = FirstUsableDoc(loc.dir)
        /\ \A i, j \in 1..Len(trace) :
              (i < j /\ trace[i].arg = "sample_policies.json")
              => trace[j].arg # "fortinet-config.json"
        /\ TraceHas("is_available", "fortinet-config.json",
                    IF loc.dir["fortinet-config.json"].st = "absent" THEN "no" ELSE "yes")
        /\ loc.dir["fortinet-config.json"].st = "bad"
              => (/\ TraceHas("load", "fortinet-config.json", "failed")
                  /\ \E e \in 1..Len(trace) :
                        trace[e].op = "is_available" /\ trace[e].arg = "sample_policies.json")
        /\ loc.dir["fortinet-config.json"].st = "file"
              => ~\E e \in 1..Len(trace) : trace[e].arg = "sample_policies.json")

\* fortinet-config.json is there but does not load; sample_policies.json is used
C10_Witness ==
    /\ op = "ingest" /\ pc = "count"
    /\ loc.dir["fortinet-config.json"].st = "bad"
    /\ loc.dir["sample_policies.json"].st = "file"
    /\ loc.raw = JArr(<< PolicyA >>)
    /\ TraceHas("load", "fortinet-config.json", "failed")
    /\ TraceHas("load", "sample_policies.json", "ok")

\* the live fetch was made
FetchMade == \E e \in 1..Len(trace) : trace[e].op = "fetch"

\* the live fetch was made and returned a payload
FetchOk == \E e \in 1..Len(trace) : trace[e].op = "fetch" /\ trace[e].res = "ok"

\* C11: once an Ingest has obtained a payload, from the live source or from a
\* sample, it returns a result with success=true and does not raise, whatever
\* the payload.
C11_PayloadAlwaysSucceeds ==
    (IngestDone /\ (FetchOk \/ SampleLoaded) /\ loc.raw # JNull)
    => (outcome = Returned /\ result.success)

\* C12: an Ingest whose payload is empty or absent (an empty array, an empty
\* object, a document that is null) returns success=true with storedCount=0
\* and stored=false, and has sent nothing to the store.
C12_EmptyPayloadShortCircuits ==
    (IngestDone /\ (FetchOk \/ SampleLoaded) /\ ~Truthy(loc.raw))
    => (/\ outcome = Returned
        /\ result.success
        /\ result.db_count = 0
        /\ ~result.db_stored
        /\ StoreEvents = { })

\* C13: once an Ingest is past its fetch step, the fetch was made if and only
\* if use_sample_data is false and a live source, the request's or the
\* ambient one, exists; and a payload of an Ingest that made no fetch comes
\* from a sample file.
C13_FetchIffLiveSource ==
    (op = "ingest" /\ pc # "fetch")
    => (/\ FetchMade <=> (~req.use_sample_data /\ (req.firewall_config.given \/ ambient))
        /\ (~FetchMade /\ loc.raw # JNull) => SampleLoaded)

\* use_sample_data with an override and an ambient source: no fetch, a sample used
C13_Witness ==
    /\ IngestDone /\ outcome = Returned
    /\ req.use_sample_data /\ req.firewall_config.given /\ ambient
    /\ ~FetchMade /\ SampleLoaded /\ result.success

\* C14: every fetch of an Ingest whose request carries firewall_config goes
\* through the client built from it, never through the ambient client; the
\* ambient client is fetched from only when the request carries none.
C14_OverrideOnly ==
    op = "ingest"
    => \A e \in 1..Len(trace) :
          trace[e].op = "fetch"
          => trace[e].arg = (IF req.firewall_config.given THEN "temp" ELSE "ambient")

\* an override beside a configured ambient source: the fetch went through the override
C14_Witness ==
    /\ IngestDone
    /\ req.firewall_config.given /\ ambient
    /\ TraceHas("fetch", "temp", "ok")

\* the successful inserts of the call under way
InsertsOk == Cardinality({ e \in 1..Len(trace) : trace[e] = Event("store", "insert", "ok") })

\* C15: the rows are append-only.  A Persist of an empty list returns
\* (0, None) and inserts nothing, a Persist of a non-empty list that returns
\* has inserted once; an Ingest has inserted once when its result says stored
\* and not at all otherwise; no other operation inserts.  And every step
\* either leaves the rows as they are or is the insert of insert_configs,
\* which appends one row after the existing ones.
C15_AppendOnly ==
    /\ []((pc = "done" /\ op # "none")
          => (/\ (op = "persist" /\ Len(req.configs) = 0)
                    => (/\ outcome = Returned
                        /\ result = [inserted |-> 0, config_id |-> NoId]
                        /\ StoreEvents = { })
              /\ (op = "persist" /\ Len(req.configs) > 0 /\ outcome = Returned)
                    => (InsertsOk = 1 /\ result.inserted = 1)
              /\ (op = "persist" /\ outcome # Returned) => InsertsOk = 0
              /\ op = "ingest" => InsertsOk = (IF result.db_stored THEN 1 ELSE 0)
              /\ op \notin { "persist", "ingest" } => InsertsOk = 0))
    /\ [][\/ rows' = rows
          \/ /\ pc = "insert"
             /\ Len(rows') = Len(rows) + 1
             /\ SubSeq(rows', 1, Len(rows)) = rows
             /\ trace' = Append(trace, Event("store", "insert", "ok"))]_vars

\* a Persist of two payloads on a table that held a row: one row more
C15_Witness ==
    /\ op = "persist" /\ pc = "done" /\ outcome = Returned
    /\ Len(req.configs) = 2
    /\ Len(rows) = 2
    /\ InsertsOk = 1

\* C16: when the insert_configs calls of two requests for the same
\* (vendor_type, device_id, config_type) interleave, each call that returns an
\* id returns the id of the row it wrote itself: the ids differ, and the row
\* of each id holds that call's own payload.
C16_ConcurrentOwnIds ==
    (op = "concurrent" /\ \A c \in Calls : loc[c].pc = "done")
    => \A c, d \in Calls :
          (/\ c # d
           /\ req[c].vendor_type = req[d].vendor_type
           /\ req[c].device_id = req[d].device_id
           /\ req[c].config_type = req[d].config_type
           /\ loc[c].config_id # NoId)
          => (/\ loc[c].config_id = loc[c].wrote
              /\ loc[c].config_id # loc[d].config_id
              /\ \A i \in 1..Len(rows) :
                    rows[i].id = loc[c].config_id
                    => ConfigDict(rows[i]).config_json
                         = [kind |-> "value",
                            val |-> IF Len(req[c].configs) = 1 THEN req[c].configs[1]
                                    ELSE JArr(req[c].configs)])

\* the events of the call under way that satisfy a condition on (op, arg)
FetchEvents == { e \in 1..Len(trace) : trace[e].op = "fetch" }

LoadEvents(f) == { e \in 1..Len(trace) : trace[e].op = "load" /\ trace[e].arg = f }

\* the fetch is made at most once, each candidate is loaded at most once, and
\* no fetch follows a step of the fallback phase
SinglePass ==
    /\ Cardinality(FetchEvents) <= 1
    /\ \A i \in 1..Len(sample_files) : Cardinality(LoadEvents(sample_files[i])) <= 1
    /\ \A e \in FetchEvents :
          \A f \in 1..Len(trace) : trace[f].op \in { "is_available", "load" } => e < f

\* C17: an Ingest is a single pass: at most one fetch, at most one load of
\* each candidate, no fetch once the fallback phase has started; and the
\* fallback phase ends in failure only when every candidate was unavailable
\* or failed to load.
C17_SinglePass ==
    op = "ingest"
    => (/\ SinglePass
        /\ (pc = "done" /\ FallbackEntered /\ outcome = Returned /\ ~result.success)
              => \A i \in 1..Len(sample_files) :
                    \/ TraceHas("is_available", sample_files[i], "no")
                    \/ TraceHas("load", sample_files[i], "failed"))

\* the identity as the specification words it: the explicit argument, else
\* the address of the resolved source; the explicit name, else vendor-device
ClaimedIdentity ==
    LET vendor == IF req.vendor_type # NoneStr THEN req.vendor_type ELSE "fortigate"
        address == IF req.firewall_config.given THEN req.firewall_config.ip_address
                   ELSE IF ambient THEN AmbientAddress ELSE "unknown"
        dev == IF req.device_id # NoneStr THEN req.device_id ELSE address
    IN [vendor_type |-> vendor, device_id |-> dev,
        device_name |-> IF req.device_name # << >> THEN req.device_name
                        ELSE << vendor, "-", dev >>]

\* the same, with the override's own device_id and device_name taken before
\* the address and the built name
OverrideAwareIdentity ==
    LET vendor == IF req.vendor_type # NoneStr THEN req.vendor_type ELSE "fortigate"
        fw == req.firewall_config
        address == IF fw.given THEN fw.ip_address
                   ELSE IF ambient THEN AmbientAddress ELSE "unknown"
        dev == IF req.device_id # NoneStr THEN req.device_id
               ELSE IF fw.given /\ fw.device_id # NoneStr THEN fw.device_id
               ELSE address
    IN [vendor_type |-> vendor, device_id |-> dev,
        device_name |-> IF req.device_name # << >> THEN req.device_name
                        ELSE IF fw.given /\ fw.device_name # << >> THEN fw.device_name
                        ELSE << vendor, "-", dev >>]

\* the identity the Ingest under way holds, passes to insert_configs and has
\* written is the identity id
IdentityIs(id) ==
    op = "ingest"
    => (/\ loc.identity = id
        /\ pc = "insert"
              => (/\ PersistArgs.vendor_type = id.vendor_type
                  /\ PersistArgs.device_id = id.device_id
                  /\ PersistArgs.device_name = id.device_name)
        /\ InsertsOk = 1
              => (/\ rows[Len(rows)].vendor_type = id.vendor_type
                  /\ rows[Len(rows)].device_id = id.device_id
                  /\ rows[Len(rows)].device_name = id.device_name))

\* C18, as claimed: the identity passed to Persist is the request's device_id
\* if given, else the address of the resolved source (the override's, else the
\* ambient one, else "unknown"), and the request's device_name if given, else
\* vendor-device; whatever the source of the payload.
C18_IdentityAsClaimed == IdentityIs(ClaimedIdentity)

\* C18, amended: between the request's own field and the derived value comes
\* the override's own device_id, and the override's own device_name.
C18_IdentityResolved == IdentityIs(OverrideAwareIdentity)

\* a row written for an override that carries a device_id, the request none
C18_Witness ==
    /\ op = "ingest" /\ InsertsOk = 1
    /\ req.device_id = NoneStr /\ req.device_name = << >>
    /\ req.vendor_type = "paloalto"
    /\ req.firewall_config.given /\ req.firewall_config.device_id = "fwX"
    /\ rows[Len(rows)].device_id = "fwX"
    /\ rows[Len(rows)].device_name = << "paloalto", "-", "fwX" >>

\* the metadata column of the row the Ingest under way has written, parsed
WrittenMetadata == ParsedColumn(rows[Len(rows)].metadata)

\* C19: in every result with success=true that an Ingest returns, data_source
\* is "api" exactly when the fetch returned the payload and "sample" exactly
\* when the fallback phase supplied it; and the metadata of the row the Ingest
\* wrote holds that data_source and, as total_policies, the result's
\* policies_count.
C19_DataSourceTag ==
    (IngestDone /\ outcome = Returned /\ result.success)
    => (/\ result.data_source \in { "api", "sample" }
        /\ result.data_source = "api" <=> FetchOk
        /\ result.data_source = "sample" <=> (FallbackEntered /\ SampleLoaded)
        /\ InsertsOk = 1
              => (/\ WrittenMetadata.kind = "value"
                  /\ IsDict(WrittenMetadata.val)
                  /\ GetKey(WrittenMetadata.val, "data_source") = JStr(result.data_source)
                  /\ GetKey(WrittenMetadata.val, "total_policies")
                       = JNum(result.policies_count)))

\* a payload of one policy, taken from a sample after the fetch failed, and stored
C19_Witness ==
    /\ IngestDone /\ outcome = Returned /\ result.success
    /\ FetchFailed /\ SampleLoaded
    /\ result.data_source = "sample"
    /\ InsertsOk = 1
    /\ result.policies_count = 1

\* a payload of two policies, returned by the fetch, and stored
C19_WitnessApi ==
    /\ IngestDone /\ outcome = Returned /\ result.success
    /\ FetchOk /\ result.data_source = "api"
    /\ InsertsOk = 1
    /\ result.policies_count = 2

\* C20: Status always returns a report: whether a live source and a store
\* are configured, and the number of stored policy rows; the number is 0
\* when the connection or the count query failed, or no store is configured.
C20_StatusAlwaysReports ==
    (op = "status" /\ pc = "done")
    => (/\ outcome = Returned
        /\ result.status = "operational"
        /\ result.fortigate_configured = ambient
        /\ result.database_configured = hasHandler
        /\ result.total_policies_in_db
             = (IF TraceHas("store", "count_query", "ok")
                THEN Cardinality({ i \in 1..Len(rows) : rows[i].config_type = "policy" })
                ELSE 0))

\* the connection fails on a table that holds a row: the report says 0
C20_Witness ==
    /\ op = "status" /\ pc = "done" /\ outcome = Returned
    /\ Len(rows) > 0
    /\ TraceHas("store", "connect_db", "failed")
    /\ result.total_policies_in_db = 0

\* the commands of the call under way, by what they ask of the store
EventsOf(cmd) == { e \in 1..Len(trace) : trace[e].op = "store" /\ trace[e].arg = cmd }

LastStoreEvent(e) == \A f \in StoreEvents : f <= e

\* ensure_database_exists returned: it ends with the target database answering
EnsureReturned(e) == trace[e] = Event("store", "connect_db", "ok")

\* C21: within one Ingest the phases are ordered.  The insert of Persist is
\* sent only with a non-empty payload, store_in_db true and a store
\* configured, after every fetch and every sample load of the Ingest, and
\* after an ensure_database_exists that returned followed by a create_table
\* that succeeded; once either of the two has failed, nothing more is sent to
\* the store and no row is written.
C21_PhasesOrdered ==
    op = "ingest"
    => (/\ \A e \in EventsOf("insert") \cup (IF pc = "insert" THEN { Len(trace) + 1 } ELSE { }) :
              /\ Truthy(loc.raw)
              /\ req.store_in_db /\ hasHandler
              /\ \A f \in 1..Len(trace) :
                    trace[f].op \in { "fetch", "is_available", "load" } => f < e
              /\ \E c \in EventsOf("create_table") :
                    /\ c < e /\ trace[c].res = "ok"
                    /\ \E d \in 1..(c - 1) : EnsureReturned(d)
        /\ \A c \in EventsOf("create_table") :
              \E d \in 1..(c - 1) :
                 /\ EnsureReturned(d)
                 /\ \A f \in StoreEvents : ~(d < f /\ f < c)
        /\ \A e \in StoreEvents :
              (/\ trace[e].res = "failed"
               /\ \/ trace[e].arg \in { "create_table", "create_database", "connect_default" }
                  \/ trace[e].arg = "connect_db" /\ LastStoreEvent(e))
              => (/\ LastStoreEvent(e)
                  /\ pc \in { "summary", "done" }
                  /\ EventsOf("insert") = { }))

\* the fetch failed, a sample was loaded, the database was created on the way,
\* the table was created, the row was written
C21_Witness ==
    /\ IngestDone /\ outcome = Returned
    /\ FetchFailed /\ SampleLoaded
    /\ TraceHas("store", "create_database", "ok")
    /\ TraceHas("store", "create_table", "ok")
    /\ TraceHas("store", "insert", "ok")
    /\ result.db_stored

\* C22: the client an Ingest builds from the request's firewall_config is
\* released, its session closed, by the time the Ingest returns or raises.
C22_TempClientReleased ==
    (IngestDone /\ req.firewall_config.given) => loc.temp_session = "closed"

\* the connections the call under way has let go of without closing them
Dropped == { e \in 1..Len(trace) : trace[e].op = "client" /\ trace[e].arg = "drop" }

\* C23: ensure_database_exists followed by create_table on a store that is
\* already provisioned, called on a handler in any state: when the server
\* answers every command, both succeed; whenever ensure_database_exists
\* returns, the handler holds one open connection, and no connection it
\* replaced or opened temporarily is left open; the rows stay as they are.
C23_EnsureIdempotent ==
    [][(op = "ensure" /\ dbExists /\ tableExists)
       => (/\ rows' = rows /\ dbExists' /\ tableExists'
           /\ (pc = "ensure" /\ trace' # trace
                  /\ \A e \in 1..Len(trace') : trace'[e].res # "failed")
                 => pc' = "create_table"
           /\ (pc = "ensure" /\ pc' = "create_table")
                 => (/\ hclient' = "set"
                     /\ \A e \in 1..Len(trace') :
                           trace'[e].op = "client" => trace'[e].arg = "close")
           /\ (pc = "create_table" /\ trace' # trace /\ trace'[Len(trace')].res = "ok")
                 => (pc' = "done" /\ outcome' = Returned /\ hclient' = hclient))]_vars

\* a JSON column as the claim words it: deserialized when the stored string is
\* valid JSON, the stored string when it is not
Deserialized(text) ==
    IF Loads(text).ok THEN [kind |-> "value", val |-> Loads(text).val]
    ELSE [kind |-> "text", text |-> text]

\* C24: a Get, or a Lookup, whose query finds a row returns the record
\* whatever the row's config_json and metadata hold: each of the two is
\* deserialized when the stored string is valid JSON and is the stored string
\* when it is not, whatever the other one holds; every other column is as
\* stored.
C24_StoredContentNeverFails ==
    (/\ op \in { "get", "lookup" } /\ pc = "done" /\ req.config_id.wf
     /\ TraceHas("store", "get_query", "ok")
     /\ \E i \in 1..Len(rows) : rows[i].id = req.config_id.n)
    => (/\ outcome = Returned
        /\ result.config.kind = "record"
        /\ op = "lookup" => (result.success /\ result.error = "none")
        /\ \E i \in 1..Len(rows) :
              /\ rows[i].id = req.config_id.n
              /\ result.config.row
                   = [rows[i] EXCEPT !.config_json = Deserialized(rows[i].config_json),
                                     !.metadata = Deserialized(rows[i].metadata)])

\* a config_json cut short beside a metadata that is valid JSON: the first
\* comes back as stored, the second deserialized
C24_Witness ==
    /\ op = "get" /\ pc = "done" /\ outcome = Returned
    /\ result.config.kind = "record"
    /\ rows[1].config_json = SubSeq(Dumps(JArr(<< PolicyA >>)), 1, 5)
    /\ result.config.row.config_json = [kind |-> "text", text |-> rows[1].config_json]
    /\ result.config.row.metadata
         = [kind |-> "value", val |-> JObj(<< << "data_source", JStr("api") >> >>)]

\* the insert of the call under way succeeded and its id query failed
IdQueryFailed ==
    /\ TraceHas("store", "insert", "ok")
    /\ TraceHas("store", "id_query", "failed")

\* C25: when the insert of Persist succeeds and the query for the new row's
\* id fails, Persist returns (1, None) without raising and the row stays
\* stored; the result of the Ingest then has stored=true, storedCount=1,
\* configId=None, error=None and success=true.
C25_IdQueryFailureAbsorbed ==
    /\ (op = "persist" /\ pc = "done" /\ IdQueryFailed)
          => (/\ outcome = Returned
              /\ result = [inserted |-> 1, config_id |-> NoId]
              /\ rows[Len(rows)].config_json = ConfigsJson(req.configs))
    /\ (IngestDone /\ IdQueryFailed)
          => (/\ outcome = Returned
              /\ rows[Len(rows)].config_json = Dumps(loc.raw)
              /\ result.db_stored
              /\ result.db_count = 1
              /\ result.config_id = NoId
              /\ result.error = "none"
              /\ result.success)

\* an Ingest as POST /policies/fetch starts it, ended; and the status it gives
RouteDone == IngestDone /\ ~req.use_sample_data

HttpStatus == fetch_policies_status(outcome, result)

\* C26, as claimed: at POST /policies/fetch a result with success=false
\* surfaces as a 4xx failure, and a failure raised by the Ingest surfaces as
\* a 503 failure.
C26_StatusAsClaimed ==
    RouteDone
    => (/\ (outcome = Returned /\ ~result.success) => HttpStatus \in 400..499
        /\ outcome.kind = "raised" => HttpStatus = 503)

\* C26, amended: a result with success=false surfaces as a 500 failure; an
\* exception that leaves the Ingest surfaces as 503 when it is a
\* FortiGateAPIError or a DatabaseError and as 500 otherwise; a result with
\* success=true is a 200.
C26_StatusClasses ==
    RouteDone
    => (/\ (outcome = Returned /\ ~result.success) => HttpStatus = 500
        /\ (outcome = Returned /\ result.success) => HttpStatus = 200
        /\ outcome.kind = "raised"
              => HttpStatus = (IF outcome.exc \in { "FortiGateAPIError", "DatabaseError" }
                               THEN 503 ELSE 500))

\* the fetch failed and no sample file is usable: success=false, a 500
C26_Witness ==
    /\ RouteDone /\ outcome = Returned
    /\ FetchFailed /\ ~SampleLoaded
    /\ ~result.success
    /\ HttpStatus = 500

\* the GET of the fetch under way ended with a final response whose status is
\* 2xx and whose body is a JSON document
GoodResponse ==
    /\ req.transport = "response"
    /\ req.status \in 200..299
    /\ Loads(req.body).ok

\* C27: fetch_policies returns a payload only when the final response is 2xx
\* with a JSON-parseable body; for any other status, an unparseable body, a
\* connection failure or a timeout it raises FortiGateAPIError; and no other
\* exception type leaves it.
C27_FetchClassified ==
    (op = "fetch" /\ pc = "done")
    => (/\ outcome = Returned => GoodResponse
        /\ ~GoodResponse => outcome = Raised("FortiGateAPIError")
        /\ outcome.kind = "raised" => outcome.exc = "FortiGateAPIError")

\* C28: every caller-supplied string written into a query predicate
\* (vendor_type, device_id, config_type in the id query of Persist and in
\* Count, the id in Get) makes a literal that the server reads to its last
\* character and no further: the value cannot end its literal early or
\* leave it open, whatever single quotes and backslashes it holds.
C28_LiteralsClosed ==
    (op = "query" /\ pc = "done" /\ result.written)
    => LexLiteral(result.literal, 2) = Len(result.literal)

\* an interface field as the claim words it: the comma-joined names of a list
\* of objects with a name, the name of a single object, a non-empty scalar
\* itself, "N/A" when absent or empty
ClaimedInterface(policy, key) ==
    IF ~HasKey(policy, key) \/ ~Truthy(GetKey(policy, key)) THEN << JStr("N/A") >>
    ELSE LET v == GetKey(policy, key) IN
         CASE v.t = "arr" -> JoinNames([i \in 1..Len(v.items) |-> GetKey(v.items[i], "name")], 1)
           [] v.t = "obj" -> << GetKey(v, "name") >>
           [] OTHER -> << v >>

\* the list of policies of the summary under way
SummaryInput == IF IsList(req.raw) THEN req.raw.items ELSE GetKey(req.raw, "policies").items

Min(a, b) == IF a < b THEN a ELSE b

\* C29: the summary of a list of policy objects has total_policies equal to
\* the length of the list and as sample_policies the entries of its first
\* min(5, length) policies, in their order; the two interface fields of an
\* entry are the comma-joined names of a list of objects with a name, the
\* name of a single object, a non-empty scalar itself, and "N/A" when the
\* field is absent or empty.
C29_SummaryOfPolicies ==
    (op = "summary" /\ pc = "done")
    => (/\ outcome = Returned
        /\ result.summary.total_policies = Len(SummaryInput)
        /\ Len(result.summary.sample_policies) = Min(5, Len(SummaryInput))
        /\ \A i \in 1..Len(result.summary.sample_policies) :
              LET entry == result.summary.sample_policies[i]
                  policy == SummaryInput[i]
              IN /\ entry.source_interface = ClaimedInterface(policy, "srcintf")
                 /\ entry.destination_interface = ClaimedInterface(policy, "dstintf")
                 /\ HasKey(policy, "name") => entry.name = GetKey(policy, "name")
                 /\ HasKey(policy, "policyid") => entry.policy_id = GetKey(policy, "policyid"))

\* six policies: the summary counts six and keeps the first five; the fifth
\* has two source interfaces, joined, and an empty destination
C29_Witness ==
    /\ op = "summary" /\ pc = "done" /\ outcome = Returned
    /\ req.raw = JArr(<< PolicyA, PolicyB, PolicyC, PolicyA, PolicyD, PolicyB >>)
    /\ result.summary.total_policies = 6
    /\ Len(result.summary.sample_policies) = 5
    /\ result.summary.sample_policies[1].source_interface = << JStr("lan") >>
    /\ result.summary.sample_policies[2].source_interface = << JStr("dmz") >>
    /\ result.summary.sample_policies[3].source_interface = << JStr("port1") >>
    /\ result.summary.sample_policies[5].source_interface
         = << JStr("lan"), JStr(", "), JStr("dmz") >>
    /\ result.summary.sample_policies[5].destination_interface = << JStr("N/A") >>

\* C30: every result an Ingest returns is consistent: a config_id implies
\* db_stored and db_count = 1; db_stored implies success; without db_stored,
\* db_count is 0 and config_id is None; and without success the error is set,
\* policies_count is 0, db_stored is false and summary is None.
C30_ResultConsistent ==
    (IngestDone /\ outcome = Returned)
    => (/\ result.config_id # NoId => (result.db_stored /\ result.db_count = 1)
        /\ result.db_stored => result.success
        /\ ~result.db_stored => (result.db_count = 0 /\ result.config_id = NoId)
        /\ ~result.success
              => (/\ result.error # "none"
                  /\ result.policies_count = 0
                  /\ ~result.db_stored
                  /\ result.summary = [kind |-> "none"]))

\* a payload that was stored and whose id came back
C30_Witness ==
    /\ IngestDone /\ outcome = Returned
    /\ result.config_id # NoId
    /\ result.db_stored /\ result.db_count = 1
    /\ result.success /\ result.error = "none"
    /\ result.summary.kind = "summary"
====
